---- MODULE Spec2Model ----
(***************************************************************************)
(* Reconfigurable assembly line balancing (src/Rfile.py).                  *)
(*                                                                         *)
(* solve_problems walks a list of FileData instances.  For each one it     *)
(* draws random period capacities, builds a mixed-integer model (binary    *)
(* x[i,k], non-negative integer yp[k,t] and yr[k,t], five constraint       *)
(* families, objective sum of yp+yr), hands it to the solver, and reads    *)
(* the resolved values back into a result record.                          *)
(*                                                                         *)
(* The solver is external.  It is modelled by its contract: it reports     *)
(* Infeasible when no value assignment satisfies the constraint set, and   *)
(* otherwise returns any one assignment that satisfies the constraint set  *)
(* and has least objective.  The value it reports for a binary variable    *)
(* that is 1 in that assignment may fall short of 1 by less than the       *)
(* solver's integrality tolerance; values are therefore kept in millionths.*)
(*                                                                         *)
(* R = 0.5 is kept exact by multiplying the robust constraint by RDen.     *)
(***************************************************************************)
EXTENDS Integers, Sequences, FiniteSets, TLC

\* ---------------------------------------------------------------- bounds
MaxTasks == 6          \* largest tasks_count of an instance
MaxBatch == 2          \* longest file_data_list (SpecBatch)
MaxNoisy == 1          \* tasks 1..MaxNoisy may have their 1 reported short of 1
DurSmall == 10         \* a duration well below every capacity
DurLarge == 40         \* a duration above the least capacity

\* ------------------------------------------------------ program constants
K == 5                 \* U = range(1, 6)
NumPeriods == 5        \* T = range(1, 6)
MinCapacity == 30      \* generate_random_capacities(len(T), 30, 50)
MaxCapacity == 50
RNum == 1              \* R = 0.5 = RNum / RDen
RDen == 2
UncertainPrefix == 5   \* permutation[:5]
One == 1000000         \* the value 1.0, in millionths
NearOne == One - 1     \* 0.999999, within the solver's integrality tolerance
None == 0 - 1          \* Python's None (a variable that has no value)

U == 1 .. K
T == 1 .. NumPeriods

Min2(a, b) == IF a <= b THEN a ELSE b

RECURSIVE lpSum(_, _)
\* pl.lpSum(f[e] for e in range(1, n + 1))
lpSum(f, n) == IF n = 0 THEN 0 ELSE lpSum(f, n - 1) + f[n]

\* ---------------------------------------------------------------- inputs
\* uncertain_tasks = set(permutation[:5])
uncertain_of(permutation) ==
    {permutation[p] : p \in 1 .. Min2(UncertainPrefix, Len(permutation))}

FileData(tasks_count, durations, permutation, precedences) ==
    [tasks_count |-> tasks_count, durations |-> durations,
     permutation |-> permutation, precedences |-> precedences,
     uncertain_tasks |-> uncertain_of(permutation)]

Chain(n) == {<<i, i + 1>> : i \in 1 .. n - 1}

DurationChoices(n) ==
    { [i \in 1 .. n |-> DurSmall],
      [i \in 1 .. n |-> IF i = 1 THEN DurLarge ELSE DurSmall],
      [i \in 1 .. n |-> IF i = n THEN DurLarge ELSE DurSmall] }

PermutationChoices(n) == { << >>, [p \in 1 .. n |-> n + 1 - p] }

PrecedenceChoices(n) == { Chain(n), Chain(n) \ {<<1, 2>>} }

InstancesOf(n) ==
    { FileData(n, d, p, q) :
        d \in DurationChoices(n), p \in PermutationChoices(n),
        q \in PrecedenceChoices(n) }

\* files that load_data reads into instances the builder accepts
WellFormedInstances == UNION { InstancesOf(n) : n \in (K - 1) .. MaxTasks }

\* files whose instance breaks one structural invariant: a duration line
\* missing, a precedence pair naming task n+1, a permutation naming task n+1
MalformedInstancesOf(n) ==
    LET d == [i \in 1 .. n |-> DurSmall]
    IN  { FileData(n, SubSeq(d, 1, n - 1), << >>, Chain(n)),
          FileData(n, d, << >>, Chain(n) \cup {<<1, n + 1>>}),
          FileData(n, d, <<n + 1>>, Chain(n)) }

Instances == WellFormedInstances \cup MalformedInstancesOf(K)

\* the instances of the batch runs: one that solves, one with fewer tasks
\* than stations, one malformed
BatchInstances ==
    { FileData(K, [i \in 1 .. K |-> DurSmall], << >>, Chain(K)),
      FileData(K - 1, [i \in 1 .. K - 1 |-> DurSmall], << >>, Chain(K - 1)),
      FileData(K, [i \in 1 .. K |-> DurSmall], << >>, Chain(K) \cup {<<1, K + 1>>}) }

RECURSIVE SeqsUpTo(_, _)
\* the non-empty sequences over S of length at most n
SeqsUpTo(S, n) ==
    IF n = 0 THEN {}
    ELSE { <<e>> : e \in S }
         \cup { Append(q, e) : q \in SeqsUpTo(S, n - 1), e \in S }

\* generate_random_capacities: one of 30..50 per period; the draws kept are
\* the least capacity in every period, and the same with the largest
\* capacity in the first period
CapacityMaps ==
    { [t \in T |-> MinCapacity],
      [t \in T |-> IF t = 1 THEN MaxCapacity ELSE MinCapacity] }

\* ------------------------------------------------------ the built model
\* A value assignment to the x family: xs[i, k] in {0, 1}.  The candidates
\* the solver is modelled to search put each task on at most one station
\* (a[i] = 0: on none).
XMatrix(n, a) == [i \in 1 .. n, k \in U |-> IF a[i] = k THEN 1 ELSE 0]

\* prob += pl.lpSum(x[i, k] for k in U) == 1
TaskAssignment(xs, i) == lpSum([k \in U |-> xs[i, k]], K) = 1

\* AtLeastOneTask with the bound written as 0
AtLeastOneTask_zero(fd, xs, k) ==
    lpSum([i \in 1 .. fd.tasks_count |-> xs[i, k]], fd.tasks_count) >= 0

\* prob += pl.lpSum(x[i, k] for i in N) >= 1
AtLeastOneTask(fd, xs, k) ==
    lpSum([i \in 1 .. fd.tasks_count |-> xs[i, k]], fd.tasks_count) >= 1

\* Precedence with the station index k left out of both sums
Precedence_unweighted(xs, i, j) ==
    lpSum([k \in U |-> xs[i, k]], K) <= lpSum([k \in U |-> xs[j, k]], K)

\* prob += lpSum(k * x[i, k] for k in U) <= lpSum(k * x[j, k] for k in U)
Precedence(xs, i, j) ==
    lpSum([k \in U |-> k * xs[i, k]], K) <= lpSum([k \in U |-> k * xs[j, k]], K)

\* lpSum(durations[i - 1] * x[i, k] for i in N)
Load(fd, xs, k) ==
    lpSum([i \in 1 .. fd.tasks_count |-> fd.durations[i] * xs[i, k]],
          fd.tasks_count)

\* RobustLoad with the uncertain durations weighted by R in place of 1 + R
RobustLoad_R(fd, xs, k) ==
    LET N == 1 .. fd.tasks_count
    IN  RDen * lpSum([i \in N |-> IF i \notin fd.uncertain_tasks
                                  THEN fd.durations[i] * xs[i, k] ELSE 0],
                     fd.tasks_count)
        + RNum
          * lpSum([j \in N |-> IF j \in fd.uncertain_tasks
                               THEN fd.durations[j] * xs[j, k] ELSE 0],
                  fd.tasks_count)

\* lpSum(... for i in N if i not in uncertain_tasks)
\*   + (1 + R) * lpSum(... for j in uncertain_tasks),   times RDen
RobustLoad(fd, xs, k) ==
    LET N == 1 .. fd.tasks_count
    IN  RDen * lpSum([i \in N |-> IF i \notin fd.uncertain_tasks
                                  THEN fd.durations[i] * xs[i, k] ELSE 0],
                     fd.tasks_count)
        + (RDen + RNum)
          * lpSum([j \in N |-> IF j \in fd.uncertain_tasks
                               THEN fd.durations[j] * xs[j, k] ELSE 0],
                  fd.tasks_count)

\* DailyLoad against the largest capacity in place of the period's own
DailyLoad_max(load, cap, ypv) == load <= (1 + ypv) * MaxCapacity

\* ... <= (1 + yp[k, t]) * c[t]
DailyLoad(load, cap, ypv) == load <= (1 + ypv) * cap

\* RobustDailyLoad with yp[k, t] left out of the right-hand side
RobustDailyLoad_yr(rload, cap, ypv, yrv) == rload <= RDen * (1 + yrv) * cap

\* ... <= (1 + yp[k, t] + yr[k, t]) * c[t],   times RDen
RobustDailyLoad(rload, cap, ypv, yrv) == rload <= RDen * (1 + ypv + yrv) * cap

\* the constraints on x alone
XConstraints(fd, xs) ==
    /\ \A i \in 1 .. fd.tasks_count : TaskAssignment(xs, i)
    /\ \A k \in U : AtLeastOneTask(fd, xs, k)
    /\ \A p \in fd.precedences : Precedence(xs, p[1], p[2])

\* ------------------------------------------------------------ the solver
\* yp and yr with an upper bound of 0 as well
YBound_zero(fd) == 0

\* yp and yr have lowBound=0 and no upper bound.  The search is cut at a
\* value that no constraint can ask for: (1 + YBound) * MinCapacity already
\* exceeds (1 + R) times the total duration of the instance.
YBound(fd) ==
    ((RDen + RNum) * lpSum(fd.durations, fd.tasks_count))
        \div (RDen * MinCapacity)

YPairs(fd) == (0 .. YBound(fd)) \X (0 .. YBound(fd))

\* the pairs <<yp[k,t], yr[k,t]>> that satisfy DailyLoad_t_k and
\* RobustDailyLoad_t_k for a station of the given load
CellFeasible(fd, load, rload, cap) ==
    { p \in YPairs(fd) :
        DailyLoad(load, cap, p[1]) /\ RobustDailyLoad(rload, cap, p[1], p[2]) }

\* the objective is sum_(k,t) yp[k,t] + yr[k,t], and every yp[k,t], yr[k,t]
\* occurs in the constraints of its own (k,t) only: for a fixed x the least
\* objective is reached exactly by taking a least-sum pair in every cell
CellOptimal(fd, load, rload, cap) ==
    LET F == CellFeasible(fd, load, rload, cap)
    IN  { p \in F : \A q \in F : p[1] + p[2] <= q[1] + q[2] }

\* the least-sum pairs of every cell, for a fixed x
CellsOptimal(fd, cap, xs) ==
    LET load == [k \in U |-> Load(fd, xs, k)]
        rload == [k \in U |-> RobustLoad(fd, xs, k)]
    IN  [k \in U |-> [t \in T |-> CellOptimal(fd, load[k], rload[k], cap[t])]]

\* the x that satisfy their constraints and leave every (k,t) some yp, yr,
\* each with the least-sum pairs of its cells
XFeasible(fd, cap) ==
    LET n == fd.tasks_count
        A == { a \in [1 .. n -> 0 .. K] : XConstraints(fd, XMatrix(n, a)) }
        F == { <<XMatrix(n, a), CellsOptimal(fd, cap, XMatrix(n, a))>> : a \in A }
    IN  { f \in F : \A k \in U, t \in T : f[2][k][t] # {} }

\* least value of TotalResourceUsage for a fixed x
LeastUsage(cells) ==
    lpSum([k \in U |->
             lpSum([t \in T |->
                      LET p == CHOOSE p \in cells[k][t] : TRUE IN p[1] + p[2]],
                   NumPeriods)],
          K)

XOptimal(fd, cap) ==
    LET usage == { <<f, LeastUsage(f[2])>> : f \in XFeasible(fd, cap) }
    IN  { u[1] : u \in { u \in usage : \A v \in usage : u[2] <= v[2] } }

RECURSIVE YProduct(_, _)
\* every choice of one least-sum pair per cell (k, t), t = 1 .. NumPeriods
YProduct(cells, kt) ==
    IF kt = 0 THEN { << >> }
    ELSE LET rest == YProduct(cells, kt - 1)
             k == ((kt - 1) \div NumPeriods) + 1
             t == ((kt - 1) % NumPeriods) + 1
         IN  { Append(g, p) : g \in rest, p \in cells[k][t] }

CellIndex(k, t) == (k - 1) * NumPeriods + t

\* the optimal solutions of the model: what prob.solve may return
OptimalSolutions(fd, cap) ==
    UNION { { [x |-> f[1],
               yp |-> [k \in U, t \in T |-> g[CellIndex(k, t)][1]],
               yr |-> [k \in U, t \in T |-> g[CellIndex(k, t)][2]]] :
               g \in YProduct(f[2], K * NumPeriods) } :
            f \in XOptimal(fd, cap) }

\* the model has a solution: some x satisfies its constraints and leaves
\* every (k,t) some yp, yr
ModelFeasible(fd, cap) ==
    \E a \in [1 .. fd.tasks_count -> 0 .. K] :
        LET xs == XMatrix(fd.tasks_count, a)
        IN  /\ XConstraints(fd, xs)
            /\ \A k \in U, t \in T :
                  CellFeasible(fd, Load(fd, xs, k), RobustLoad(fd, xs, k), cap[t]) # {}

\* ------------------------------------------------------------- the state
VARIABLES
    file_data_list,   \* the argument of solve_problems
    idx,              \* position of the for loop in file_data_list, from 1
    pc,               \* "build", "solve", "extract", "done" or "raised"
    c,                \* the capacities drawn for the current instance
    x, yp, yr,        \* varValue of every variable of the current prob
    status,           \* pl.LpStatus[prob.status]
    results,          \* the list solve_problems returns
    solved            \* the positions whose prob was handed to the solver

vars == <<file_data_list, idx, pc, c, x, yp, yr, status, results, solved>>

\* a variable family before the solver has set any value
Unset(D) == [d \in D |-> None]

\* building the model indexes x[i, k] with the task ids of precedences
\* (line 74) and of uncertain_tasks (line 84), and durations[i - 1] with
\* every i of N (line 79): KeyError or IndexError when one is missing
BuildRaises(fd) ==
    \/ \E p \in fd.precedences :
          p[1] \notin 1 .. fd.tasks_count \/ p[2] \notin 1 .. fd.tasks_count
    \/ Len(fd.durations) < fd.tasks_count
    \/ \E j \in fd.uncertain_tasks : j \notin 1 .. fd.tasks_count

InitCommon ==
    /\ idx = 1
    /\ pc = "build"
    /\ c = << >>
    /\ x = << >>
    /\ yp = << >>
    /\ yr = << >>
    /\ status = "Not Solved"
    /\ results = << >>
    /\ solved = << >>

\* one instance file in ./test/
Init ==
    /\ file_data_list \in { <<fd>> : fd \in Instances }
    /\ InitCommon

\* several instance files in ./test/
InitBatch ==
    /\ file_data_list \in SeqsUpTo(BatchInstances, MaxBatch)
    /\ InitCommon

\* --------------------------------------------------------------- actions
\* lines 46-84: draw the capacities, create the variables, add the
\* objective and the constraints
Build ==
    /\ pc = "build"
    /\ idx <= Len(file_data_list)
    /\ ~BuildRaises(file_data_list[idx])
    /\ \E cap \in CapacityMaps : c' = cap
    /\ x' = Unset((1 .. file_data_list[idx].tasks_count) \X U)
    /\ yp' = Unset(U \X T)
    /\ yr' = Unset(U \X T)
    /\ status' = "Not Solved"
    /\ pc' = "solve"
    /\ UNCHANGED <<file_data_list, idx, results, solved>>

\* lines 46-84 on an instance that makes a subscript fail: the exception
\* leaves solve_problems, whose list of results is lost with it
BuildFails ==
    /\ pc = "build"
    /\ idx <= Len(file_data_list)
    /\ BuildRaises(file_data_list[idx])
    /\ pc' = "raised"
    /\ results' = << >>
    /\ UNCHANGED <<file_data_list, idx, c, x, yp, yr, status, solved>>

\* the value reported for x[i, k]: a 1 of a task in noisy comes back as
\* 0.999999
Reported(xs, noisy) ==
    [ik \in DOMAIN xs |->
        IF xs[ik] = 1 THEN (IF ik[1] \in noisy THEN NearOne ELSE One) ELSE 0]

\* line 87, the model has a solution: the solver returns an optimal one
SolveOptimal ==
    /\ pc = "solve"
    /\ \E s \in OptimalSolutions(file_data_list[idx], c) :
       \E noisy \in SUBSET (1 .. Min2(MaxNoisy, file_data_list[idx].tasks_count)) :
          /\ x' = Reported(s.x, noisy)
          /\ yp' = s.yp
          /\ yr' = s.yr
    /\ status' = "Optimal"
    /\ solved' = Append(solved, idx)
    /\ pc' = "extract"
    /\ UNCHANGED <<file_data_list, idx, c, results>>

\* line 87, the model has no solution: no variable gets a value
SolveInfeasible ==
    /\ pc = "solve"
    /\ ~ModelFeasible(file_data_list[idx], c)
    /\ status' = "Infeasible"
    /\ solved' = Append(solved, idx)
    /\ pc' = "extract"
    /\ UNCHANGED <<file_data_list, idx, c, x, yp, yr, results>>

\* line 96: pl.value(x[i, k]) == 1
IsAssigned(xv) == xv = One

\* lines 90-99: the tasks read as assigned to station k, by ascending id
assignments_of(fd, xv, k) ==
    SelectSeq([i \in 1 .. fd.tasks_count |-> i], LAMBDA i : IsAssigned(xv[i, k]))

task_times_of(fd, xv, k) ==
    LET a == assignments_of(fd, xv, k)
    IN  [p \in 1 .. Len(a) |-> <<a[p], fd.durations[a[p]]>>]

total_time_of(fd, xv, k) ==
    LET tt == task_times_of(fd, xv, k)
    IN  lpSum([p \in 1 .. Len(tt) |-> tt[p][2]], Len(tt))

\* the objective with the yr terms left out
objective_yp(ypv, yrv) ==
    IF \E kt \in U \X T : ypv[kt] = None \/ yrv[kt] = None THEN None
    ELSE lpSum([k \in U |-> lpSum([t \in T |-> ypv[k, t]], NumPeriods)], K)

\* pl.value(prob.objective): None as soon as one variable has no value
objective_of(ypv, yrv) ==
    IF \E kt \in U \X T : ypv[kt] = None \/ yrv[kt] = None THEN None
    ELSE lpSum([k \in U |->
                  lpSum([t \in T |-> ypv[k, t] + yrv[k, t]], NumPeriods)], K)

\* lines 101-109
Result(fd, st, xv, ypv, yrv) ==
    [status |-> st,
     objective |-> objective_of(ypv, yrv),
     assignments |-> [k \in U |-> assignments_of(fd, xv, k)],
     task_times |-> [k \in U |-> task_times_of(fd, xv, k)],
     total_time_per_station |-> [k \in U |-> total_time_of(fd, xv, k)],
     production_resources |-> [k \in U |-> [t \in T |-> ypv[k, t]]],
     robustness_resources |-> [k \in U |-> [t \in T |-> yrv[k, t]]]]

\* lines 90-109: read the values back and append the result; the loop
\* moves on, the variables keep their values until the next build
Extract ==
    /\ pc = "extract"
    /\ results' = Append(results, Result(file_data_list[idx], status, x, yp, yr))
    /\ idx' = idx + 1
    /\ pc' = "build"
    /\ UNCHANGED <<file_data_list, c, x, yp, yr, status, solved>>

\* line 111
Return ==
    /\ pc = "build"
    /\ idx > Len(file_data_list)
    /\ pc' = "done"
    /\ UNCHANGED <<file_data_list, idx, c, x, yp, yr, status, results, solved>>

Next ==
    \/ Build
    \/ BuildFails
    \/ SolveOptimal
    \/ SolveInfeasible
    \/ Extract
    \/ Return

Spec == Init /\ [][Next]_vars

SpecBatch == InitBatch /\ [][Next]_vars

\* ------------------------------------------------------------ properties
\* the position of the instance whose model the variables hold
Cur == IF pc \in {"solve", "extract"} THEN idx ELSE idx - 1

CurData == file_data_list[Cur]

CurTasks == 1 .. CurData.tasks_count

\* the structural invariants an instance is required to satisfy
WellFormed(fd) ==
    /\ Len(fd.durations) = fd.tasks_count
    /\ \A p \in fd.precedences :
          p[1] \in 1 .. fd.tasks_count /\ p[2] \in 1 .. fd.tasks_count
    /\ fd.uncertain_tasks \subseteq 1 .. fd.tasks_count

\* the solver has run on the current instance
PostSolve == Cur >= 1 /\ status # "Not Solved"

\* the result of the current instance has been appended
Extracted == pc \in {"build", "done"} /\ Cur >= 1 /\ Len(results) = Cur

Report == results[Cur]

\* the tasks the resolved solution puts on station k (x[i, k] rounds to 1)
TasksAt(k) == { i \in CurTasks : 2 * x[i, k] >= One }

\* the stations the resolved solution puts task i on
StationsOf(i) == { k \in U : 2 * x[i, k] >= One }

RECURSIVE SumOver(_, _)
SumOver(S, f) ==
    IF S = {} THEN 0
    ELSE LET e == CHOOSE e \in S : TRUE IN f[e] + SumOver(S \ {e}, f)

NominalLoad(S) == SumOver(S, CurData.durations)

Occurrences(q, e) == Cardinality({ p \in 1 .. Len(q) : q[p] = e })

\* C1: in a report whose status is Optimal every task id of 1..tasks_count
\* occurs in the assignments of exactly one station, and once in it.
C1_Partition ==
    (Extracted /\ Report.status = "Optimal") =>
        \A i \in CurTasks :
            \E k \in U :
                /\ Occurrences(Report.assignments[k], i) = 1
                /\ \A k2 \in U \ {k} : Occurrences(Report.assignments[k2], i) = 0

\* C2: in a solution of the constraint set, for every precedence pair
\* (i, j) the station holding i has an index at most that of the station
\* holding j.
C2_Precedence ==
    status = "Optimal" =>
        \A p \in CurData.precedences :
            /\ StationsOf(p[1]) # {} /\ StationsOf(p[2]) # {}
            /\ \A ki \in StationsOf(p[1]), kj \in StationsOf(p[2]) : ki <= kj

C2_Witness ==
    /\ status = "Optimal"
    /\ \E p \in CurData.precedences :
          /\ \E ki \in StationsOf(p[1]), kj \in StationsOf(p[2]) : ki < kj
    /\ \E p \in CurData.precedences : StationsOf(p[1]) = StationsOf(p[2])

\* C3: in a solution of the constraint set, for every station k and period
\* t, yp[k,t] is a non-negative integer and the nominal durations of the
\* tasks on k sum to at most (1 + yp[k,t]) * c[t]; the total load the
\* report gives for k obeys the same bound.
C3_ProductionLoad ==
    status = "Optimal" =>
        \A k \in U, t \in T :
            /\ yp[k, t] \in Nat
            /\ NominalLoad(TasksAt(k)) <= (1 + yp[k, t]) * c[t]
            /\ Extracted =>
                  Report.total_time_per_station[k] <= (1 + yp[k, t]) * c[t]

C3_Witness ==
    /\ Extracted
    /\ status = "Optimal"
    /\ \E k \in U, t \in T :
          /\ NominalLoad(TasksAt(k)) > c[t]
          /\ Report.total_time_per_station[k] > c[t]
          /\ yp[k, t] >= 1

\* C4: in a solution of the constraint set, for every station k and period
\* t, the durations of the certain tasks on k plus (1 + R) times the
\* durations of the uncertain tasks on k are at most
\* (1 + yp[k,t] + yr[k,t]) * c[t]; the two groups split the tasks of k.
C4_RobustLoad ==
    status = "Optimal" =>
        \A k \in U, t \in T :
            LET certain == TasksAt(k) \ CurData.uncertain_tasks
                uncertain == TasksAt(k) \cap CurData.uncertain_tasks
            IN  /\ yr[k, t] \in Nat
                /\ certain \cup uncertain = TasksAt(k)
                /\ certain \cap uncertain = {}
                /\ RDen * NominalLoad(certain)
                     + (RDen + RNum) * NominalLoad(uncertain)
                   <= RDen * (1 + yp[k, t] + yr[k, t]) * c[t]

C4_Witness ==
    /\ status = "Optimal"
    /\ \E k \in U :
          /\ TasksAt(k) \cap CurData.uncertain_tasks # {}
          /\ TasksAt(k) \ CurData.uncertain_tasks # {}
    /\ \E k \in U, t \in T :
          /\ TasksAt(k) \cap CurData.uncertain_tasks # {}
          /\ yr[k, t] >= 1
          /\ NominalLoad(TasksAt(k)) <= c[t]

\* C5: a solution of the constraint set leaves no station without a task;
\* an instance with fewer tasks than stations is reported Infeasible, not
\* Optimal, with no task listed under any station.
C5_NonEmptyStations ==
    /\ status = "Optimal" => \A k \in U : TasksAt(k) # {}
    /\ (PostSolve /\ CurData.tasks_count < K) => status = "Infeasible"
    /\ (Extracted /\ CurData.tasks_count < K) =>
          /\ Report.status = "Infeasible"
          /\ \A k \in U : Report.assignments[k] = << >>

C5_Witness ==
    /\ Extracted
    /\ CurData.tasks_count < K
    /\ Report.status = "Infeasible"

\* C6: a well-formed instance is never reported Infeasible when some x
\* satisfies the assignment, non-empty-station and precedence constraints:
\* for the capacities drawn, yp and yr can always be chosen.
C6_CapacityNeverInfeasible ==
    (PostSolve /\ status = "Infeasible") =>
        /\ WellFormed(CurData)
        /\ ~ \E a \in [CurTasks -> 0 .. K] :
               XConstraints(CurData, XMatrix(CurData.tasks_count, a))

C6_Witness ==
    /\ status = "Optimal"
    /\ WellFormed(CurData)
    /\ \E k \in U, t \in T :
          /\ NominalLoad(TasksAt(k)) > c[t]
          /\ yp[k, t] >= 1

\* C7: the report lists task i under station k exactly when the resolved
\* value of x[i, k] is at least 0.5.
C7_Tolerance ==
    Extracted =>
        \A i \in CurTasks, k \in U :
            (Occurrences(Report.assignments[k], i) >= 1) <=> (2 * x[i, k] >= One)

\* C8: when the run has ended, no malformed instance was handed to the
\* solver, and every well-formed instance of the list was solved and has
\* its result in the list returned.
C8_BatchCompletes ==
    pc \in {"done", "raised"} =>
        LET good == { n \in 1 .. Len(file_data_list) : WellFormed(file_data_list[n]) }
        IN  /\ \A p \in 1 .. Len(solved) : solved[p] \in good
            /\ \A n \in good : \E p \in 1 .. Len(solved) : solved[p] = n
            /\ Len(results) = Cardinality(good)

\* C9: the objective stored in an Optimal result is the sum, over all
\* stations and periods, of its production_resources and
\* robustness_resources entries.
C9_Objective ==
    (Extracted /\ Report.status = "Optimal") =>
        Report.objective =
            SumOver(U \X T,
                    [kt \in U \X T |->
                        Report.production_resources[kt[1]][kt[2]]
                        + Report.robustness_resources[kt[1]][kt[2]]])

C9_Witness ==
    /\ Extracted
    /\ Report.status = "Optimal"
    /\ Report.objective >= 2
    /\ \E k \in U, t \in T : Report.robustness_resources[k][t] >= 1
    /\ \E k \in U, t \in T : Report.production_resources[k][t] >= 1

\* the least m >= 0 with robust load <= (1 + m) * cap
LeastUnits(rload2, cap) ==
    CHOOSE m \in 0 .. rload2 :
        /\ rload2 <= RDen * (1 + m) * cap
        /\ \A m2 \in 0 .. m - 1 : rload2 > RDen * (1 + m2) * cap

\* C10: in an optimal solution yp[k,t] + yr[k,t] is the least non-negative
\* integer m with (certain durations + 1.5 * uncertain durations on k)
\* <= (1 + m) * c[t]; moving all of it to yp (yp = m, yr = 0) satisfies
\* both load constraints as well.
C10_LeastSum ==
    status = "Optimal" =>
        \A k \in U, t \in T :
            LET rload2 ==
                    RDen * NominalLoad(TasksAt(k) \ CurData.uncertain_tasks)
                    + (RDen + RNum)
                      * NominalLoad(TasksAt(k) \cap CurData.uncertain_tasks)
                m == LeastUnits(rload2, c[t])
            IN  /\ yp[k, t] + yr[k, t] = m
                /\ NominalLoad(TasksAt(k)) <= (1 + m) * c[t]
                /\ rload2 <= RDen * (1 + m + 0) * c[t]

C10_Witness ==
    /\ status = "Optimal"
    /\ \E k \in U, t \in T : yr[k, t] >= 1 /\ yp[k, t] = 0
    /\ \E k \in U, t \in T : yp[k, t] >= 1 /\ yr[k, t] = 0
====
